---- MODULE Spec2Model ----
(***************************************************************************)
(* Word-length-distribution analyzer (src/WLD_analyzer.py).                *)
(*                                                                         *)
(* Python values are modelled as follows.                                  *)
(*   str        a sequence of symbols; ".txt" and "-" are single symbols   *)
(*   list       a sequence                                                 *)
(*   dict       a sequence of <<key, value>> pairs in insertion order      *)
(*              (Python dicts, Counter and nltk.FreqDist keep that order)  *)
(*   exception  a result record whose exc field is not "none"              *)
(*   float      count * (a / b) is computed exactly; where the exact value *)
(*              is a tie n + 1/2 the float product may sit on the tie or   *)
(*              next to it, so round() is given the three outcomes         *)
(***************************************************************************)
EXTENDS Integers, Sequences, FiniteSets, TLC

VARIABLES listing, pos, tokenized_texts, books_by_author, authors, status,
          wld_lists, call

vars == <<listing, pos, tokenized_texts, books_by_author, authors, status,
          wld_lists, call>>

corpus == <<listing, pos, tokenized_texts, books_by_author, authors, status>>

\* ------------------------------------------------------------------ bounds
MaxFiles == 2
MaxNames == 2
MaxLen == 3
MaxTokens == 4
MaxWordLen == 3
MaxCopies == 3

\* ------------------------------------------------------- program constants
DefaultSmallestAcceptableCount == 10

\* --------------------------------------------------------------- exceptions
NoExc == "none"
UnknownKindError == "ValueError: Kind must be 'book' or 'author'"
EmptyMinError == "ValueError: min() arg is an empty sequence"
EmptyMaxError == "ValueError: max() arg is an empty sequence"
EmptyArgmaxError == "ValueError: attempt to get argmax of an empty sequence"
UnpackError == "ValueError: too many values to unpack (expected 2)"
NoneIterError == "TypeError: 'NoneType' object is not iterable"
KeyErr == "KeyError"
IndexErr == "IndexError: list index out of range"
ZeroDivErr == "ZeroDivisionError: division by zero"

Ok(v) == [exc |-> NoExc, val |-> v]
Raise(e) == [exc |-> e, val |-> <<>>]

\* ------------------------------------------------------------ list helpers
RECURSIVE SumSeq(_)
SumSeq(s) == IF s = <<>> THEN 0 ELSE s[1] + SumSeq(Tail(s))

RECURSIVE Concat(_)
Concat(ss) == IF ss = <<>> THEN <<>> ELSE ss[1] \o Concat(Tail(ss))

MinOf(S) == CHOOSE m \in S : \A n \in S : m <= n
MaxOf(S) == CHOOSE m \in S : \A n \in S : m >= n

Range(s) == {s[i] : i \in 1..Len(s)}

\* Python slice s[:n] for n >= 0.
Slice(s, n) == SubSeq(s, 1, IF n < Len(s) THEN n ELSE Len(s))

\* ------------------------------------------------------------ dict helpers
DictKeys(d) == [i \in 1..Len(d) |-> d[i][1]]
DictValues(d) == [i \in 1..Len(d) |-> d[i][2]]
DictHas(d, k) == \E i \in 1..Len(d) : d[i][1] = k
DictGet(d, k) == d[CHOOSE i \in 1..Len(d) : d[i][1] = k][2]
DictSet(d, k, v) ==
    IF DictHas(d, k)
    THEN [i \in 1..Len(d) |-> IF d[i][1] = k THEN <<k, v>> ELSE d[i]]
    ELSE Append(d, <<k, v>>)

\* dict.get(k, default)
DictGetOr(d, k, default) == IF DictHas(d, k) THEN DictGet(d, k) ELSE default

\* ---------------------------------------------------------------- strings
Hyphen == "-"
DotTxt == ".txt"
CommonAll == <<"common", "-", "all">>

\* '-' in f
HasHyphen(f) == \E i \in 1..Len(f) : f[i] = Hyphen

\* f.endswith('.txt')
EndsWithTxt(f) == Len(f) > 0 /\ f[Len(f)] = DotTxt

\* f.replace('.txt', '')
IsNotDotTxt(c) == c # DotTxt
ReplaceTxt(f) == SelectSeq(f, IsNotDotTxt)

\* s.split('-'): the list of the maximal hyphen-free pieces, empty ones kept.
RECURSIVE SplitFrom(_, _, _)
SplitFrom(s, i, piece) ==
    IF i > Len(s) THEN <<piece>>
    ELSE IF s[i] = Hyphen THEN <<piece>> \o SplitFrom(s, i + 1, <<>>)
    ELSE SplitFrom(s, i + 1, Append(piece, s[i]))

Split(s) == SplitFrom(s, 1, <<>>)

\* ------------------------------------------------------------ input domains
\* Directory entries os.listdir can return.
FileNames ==
    { <<"x", Hyphen, "a", DotTxt>>,
      <<"y", Hyphen, "a", DotTxt>>,
      <<"x", Hyphen, "b", DotTxt>>,
      <<"x", DotTxt>>,
      <<"x", Hyphen, "a">>,
      <<"x", Hyphen, "y", Hyphen, "a", DotTxt>> }

\* A word of n characters.
Word(n) == [i \in 1..n |-> "w"]

\* Results of nltk.word_tokenize on a file's content.
Texts ==
    { <<>>,
      <<Word(1)>>,
      <<Word(3), Word(1)>>,
      [i \in 1..DefaultSmallestAcceptableCount |-> Word(1)] }

Titles == {<<"x">>, <<"y">>}
AuthorNames == {<<"a">>, <<"b">>, CommonAll}
KnownKinds == {"book", "author"}
Kinds == KnownKinds \cup {"chapter", "None"}

\* How round() sees a product whose exact value is a tie.
TieModes == {"even", "down", "up"}

\* ------------------------------------------------------ distribution builder
\* nltk.FreqDist(samples): a Counter; a key is inserted when first seen.
RECURSIVE FreqDist(_)
FreqDist(samples) ==
    IF samples = <<>> THEN <<>>
    ELSE LET d == FreqDist(SubSeq(samples, 1, Len(samples) - 1))
             k == samples[Len(samples)]
         IN DictSet(d, k, DictGetOr(d, k, 0) + 1)

\* sum([tokenized_texts[book] for book in books], [])
TokensOfBooks(books) ==
    Concat([i \in 1..Len(books) |-> DictGet(tokenized_texts, books[i])])

_tokens_from_name(name, kind) ==
    IF kind = "book"
    THEN IF DictHas(tokenized_texts, name)
         THEN Ok(DictGet(tokenized_texts, name))
         ELSE Raise(KeyErr)
    ELSE IF kind = "author"
    THEN IF DictHas(books_by_author, name)
         THEN Ok(TokensOfBooks(DictGet(books_by_author, name)))
         ELSE Raise(KeyErr)
    ELSE Raise(UnknownKindError)

_wld(name, kind) ==
    LET tokenized_text == _tokens_from_name(name, kind)
    IN IF tokenized_text.exc # NoExc THEN tokenized_text
       ELSE Ok(FreqDist([i \in 1..Len(tokenized_text.val) |->
                            Len(tokenized_text.val[i])]))

\* [wld.get(word_length, 0) for word_length in wld.keys()]
WldListOf(wld) ==
    [i \in 1..Len(wld) |-> DictGetOr(wld, DictKeys(wld)[i], 0)]

_wld_list(name, kind) ==
    LET wld == _wld(name, kind)
    IN IF wld.exc # NoExc THEN wld ELSE Ok(WldListOf(wld.val))

\* ------------------------------------------------------- zero-guard truncator
\* AllAtLeast with > written for >=.
AllAtLeast_Strict(lists, cutoff_idx, smallest_acceptable_count) ==
    \A k \in 1..Len(lists) : lists[k][cutoff_idx + 1] > smallest_acceptable_count

\* all(wld_list[cutoff_idx] >= smallest_acceptable_count for wld_list in ...)
AllAtLeast(lists, cutoff_idx, smallest_acceptable_count) ==
    \A k \in 1..Len(lists) : lists[k][cutoff_idx + 1] >= smallest_acceptable_count

\* The while loop of ensure_no_zeros; cutoff_idx and max_idx are 0-based.
RECURSIVE CutoffScan(_, _, _, _)
CutoffScan(lists, max_idx, cutoff_idx, smallest_acceptable_count) ==
    IF cutoff_idx <= max_idx
       /\ AllAtLeast(lists, cutoff_idx, smallest_acceptable_count)
    THEN CutoffScan(lists, max_idx, cutoff_idx + 1, smallest_acceptable_count)
    ELSE cutoff_idx

\* The value wld_lists has after ensure_no_zeros (val), and the cutoff found.
ensure_no_zeros(d, smallest_acceptable_count) ==
    IF d = <<>> THEN [exc |-> EmptyMinError, val |-> d, cutoff_idx |-> 0]
    ELSE LET lists == DictValues(d)
             max_idx == MinOf({Len(lists[k]) : k \in 1..Len(lists)}) - 1
             cutoff_idx == CutoffScan(lists, max_idx, 0, smallest_acceptable_count)
         IN [exc |-> NoExc,
             val |-> [k \in 1..Len(d) |-> <<d[k][1], Slice(d[k][2], cutoff_idx)>>],
             cutoff_idx |-> cutoff_idx]

\* ------------------------------------------------- common-distribution estimator
\* The inner loop of _common_wld_list for one word_length (1-based here).
RECURSIVE CommonAt(_, _)
CommonAt(lists, word_length) ==
    IF lists = <<>> THEN 0
    ELSE (IF word_length <= Len(lists[1]) THEN lists[1][word_length] ELSE 0)
         + CommonAt(Tail(lists), word_length)

\* _common_wld_list ranging over the shortest list instead of the first.
_common_wld_list_Shortest(lists) ==
    IF lists = <<>> THEN Raise(IndexErr)
    ELSE Ok([word_length \in 1..MinOf({Len(lists[k]) : k \in 1..Len(lists)}) |->
                CommonAt(lists, word_length)])

_common_wld_list(lists) ==
    IF lists = <<>> THEN Raise(IndexErr)
    ELSE Ok([word_length \in 1..Len(lists[1]) |-> CommonAt(lists, word_length)])

\* round(count * (num / den)) for count, num >= 0 and den > 0.
RoundScaled(count, num, den, tie) ==
    LET p == count * num
        fl == p \div den
        twice == 2 * (p % den)
    IN IF twice < den THEN fl
       ELSE IF twice > den THEN fl + 1
       ELSE IF tie = "down" THEN fl
       ELSE IF tie = "up" THEN fl + 1
       ELSE IF fl % 2 = 0 THEN fl ELSE fl + 1

\* np.argmax: the first index holding the maximum.
ArgMax(s) ==
    CHOOSE i \in 1..Len(s) :
        /\ \A j \in 1..Len(s) : s[j] <= s[i]
        /\ \A j \in 1..(i - 1) : s[j] < s[i]

\* RoundedList with the multiplier upside down.
RoundedList_Inverted(wld_list, common_wld_list, tie) ==
    LET common == Slice(common_wld_list, Len(wld_list))
    IN [i \in 1..Len(common) |->
           RoundScaled(common[i], SumSeq(common), SumSeq(wld_list), tie)]

\* The list before the drift correction (line 158).
RoundedList(wld_list, common_wld_list, tie) ==
    LET common == Slice(common_wld_list, Len(wld_list))
    IN [i \in 1..Len(common) |->
           RoundScaled(common[i], SumSeq(wld_list), SumSeq(common), tie)]

\* DriftCorrected with the correction left out.
DriftCorrected_Dropped(rounded, total) == rounded

\* Line 163: the drift is added to the most frequent word length.
DriftCorrected(rounded, total) ==
    [rounded EXCEPT ![ArgMax(rounded)] = @ + (total - SumSeq(rounded))]

_expected_wld_list(wld_list, common_wld_list, tie) ==
    LET common == Slice(common_wld_list, Len(wld_list))
    IN IF SumSeq(common) = 0 THEN Raise(ZeroDivErr)
       ELSE LET rounded == RoundedList(wld_list, common_wld_list, tie)
            IN IF rounded = <<>> THEN Raise(EmptyArgmaxError)
               ELSE Ok(DriftCorrected(rounded, SumSeq(wld_list)))

\* ------------------------------------------------------- goodness-of-fit test
\* scipy.stats.chisquare(f_obs, f_exp): the statistic is the sum over the
\* cells of (obs - exp)^2 / exp.  It is kept as the list of the cells'
\* <<numerator, denominator>>; a zero denominator makes it inf or nan.
chisquare(f_obs, f_exp) ==
    [i \in 1..Len(f_obs) |->
        <<(f_obs[i] - f_exp[i]) * (f_obs[i] - f_exp[i]), f_exp[i]>>]

\* The for loop of chi_square from the i-th name on; stops at an exception.
RECURSIVE ChiLoop(_, _, _, _, _)
ChiLoop(d, common_wld_list, tie, i, acc) ==
    IF i > Len(d) THEN acc
    ELSE LET name == d[i][1]
             wld_list == d[i][2]
             expected_wld_list == _expected_wld_list(wld_list, common_wld_list, tie)
         IN IF expected_wld_list.exc # NoExc
            THEN [acc EXCEPT !.exc = expected_wld_list.exc]
            ELSE ChiLoop(d, common_wld_list, tie, i + 1,
                   [acc EXCEPT
                      !.expected = Append(@, <<name, expected_wld_list.val>>),
                      !.printed = Append(@, <<name,
                                     chisquare(wld_list, expected_wld_list.val)>>)])

\* chi_square(wld_lists): exc is what it raises, wld_lists the dictionary as it
\* leaves it, printed the report lines, expected the expected lists computed.
chi_square(d, tie) ==
    LET truncated == ensure_no_zeros(d, DefaultSmallestAcceptableCount)
        blank == [exc |-> NoExc, wld_lists |-> truncated.val, common |-> <<>>,
                  expected |-> <<>>, printed |-> <<>>]
    IN IF truncated.exc # NoExc THEN [blank EXCEPT !.exc = truncated.exc]
       ELSE LET common_wld_list == _common_wld_list(DictValues(truncated.val))
            IN IF common_wld_list.exc # NoExc
               THEN [blank EXCEPT !.exc = common_wld_list.exc]
               ELSE ChiLoop(truncated.val, common_wld_list.val, tie, 1,
                            [blank EXCEPT !.common = common_wld_list.val])

\* ------------------------------------------------------------------ visualizer
\* The for loop of graph from the i-th name on: max(wld.keys()) needs a key.
RECURSIVE GraphLoop(_, _)
GraphLoop(wlds, i) ==
    IF i > Len(wlds) THEN [exc |-> NoExc, shown |-> TRUE]
    ELSE IF wlds[i][2] = <<>> THEN [exc |-> EmptyMaxError, shown |-> FALSE]
    ELSE GraphLoop(wlds, i + 1)

graph(wlds) == GraphLoop(wlds, 1)

\* ------------------------------------------------------------------ comparison
\* A names argument: None, or a list.
NoneArg == [isNone |-> TRUE, items |-> <<>>]
ListArg(items) == [isNone |-> FALSE, items |-> items]

\* not names
NotNames(names) == names.isNone \/ names.items = <<>>

\* {name: self._wld_list(name, kind) for name in names}, from the i-th name on.
RECURSIVE WldListsComp(_, _, _, _)
WldListsComp(names, kind, i, acc) ==
    IF i > Len(names) THEN Ok(acc)
    ELSE LET wld_list == _wld_list(names[i], kind)
         IN IF wld_list.exc # NoExc THEN wld_list
            ELSE WldListsComp(names, kind, i + 1,
                              DictSet(acc, names[i], wld_list.val))

\* {name: self._wld(name, kind) for name in names}, from the i-th name on.
RECURSIVE WldsComp(_, _, _, _)
WldsComp(names, kind, i, acc) ==
    IF i > Len(names) THEN Ok(acc)
    ELSE LET wld == _wld(names[i], kind)
         IN IF wld.exc # NoExc THEN wld
            ELSE WldsComp(names, kind, i + 1, DictSet(acc, names[i], wld.val))

\* compare_distribution(names, kind): exc is what it raises, printed the
\* report lines written, graphed whether the plot was shown.
compare_distribution(names, kind, tie) ==
    LET names1 == IF kind = "author" /\ NotNames(names)
                  THEN ListArg(authors) ELSE names
        names2 == IF kind = "book" /\ NotNames(names1)
                  THEN ListArg(DictKeys(tokenized_texts)) ELSE names1
        blank == [exc |-> NoExc, printed |-> <<>>, graphed |-> FALSE,
                  built |-> <<>>]
    IN IF names2.isNone THEN [blank EXCEPT !.exc = NoneIterError]
       ELSE LET built == WldListsComp(names2.items, kind, 1, <<>>)
            IN IF built.exc # NoExc THEN [blank EXCEPT !.exc = built.exc]
               ELSE LET chi == chi_square(built.val, tie)
                        wlds == WldsComp(names2.items, kind, 1, <<>>)
                        after == [blank EXCEPT !.built = built.val,
                                               !.printed = chi.printed]
                    IN IF chi.exc # NoExc THEN [after EXCEPT !.exc = chi.exc]
                       ELSE IF wlds.exc # NoExc THEN [after EXCEPT !.exc = wlds.exc]
                       ELSE LET g == graph(wlds.val)
                            IN [after EXCEPT !.exc = g.exc, !.graphed = g.shown]

\* ================================================================== behaviour
\* All sequences over S of length lo..hi.
SeqsOf(S, lo, hi) == UNION {[1..n -> S] : n \in lo..hi}

IsInjective(s) == \A i, j \in 1..Len(s) : i # j => s[i] # s[j]

NoCall == [fn |-> "none", exc |-> NoExc, out |-> <<>>]

\* Lines 28-30, and the directory listing line 31 iterates over.
Init ==
    /\ listing \in {l \in SeqsOf(FileNames, 0, MaxFiles) : IsInjective(l)}
    /\ pos = 1
    /\ tokenized_texts = <<>>
    /\ books_by_author = << <<CommonAll, <<>> >> >>
    /\ authors = <<>>
    /\ status = "loading"
    /\ wld_lists = <<>>
    /\ call = NoCall

\* One iteration of the loop of __init__ (lines 31-42).
LoadFile ==
    /\ status = "loading"
    /\ pos <= Len(listing)
    /\ LET filename == listing[pos]
       IN IF ~(HasHyphen(filename) /\ EndsWithTxt(filename))
          THEN /\ pos' = pos + 1
               /\ UNCHANGED <<tokenized_texts, books_by_author, authors,
                              status, call>>
          ELSE LET parts == Split(ReplaceTxt(filename))
               IN IF Len(parts) # 2
                  THEN /\ status' = "crashed"
                       /\ call' = [fn |-> "__init__", exc |-> UnpackError,
                                   out |-> <<>>]
                       /\ UNCHANGED <<pos, tokenized_texts, books_by_author,
                                      authors>>
                  ELSE LET title == parts[1]
                           author == parts[2]
                           byAuthor == DictSet(books_by_author, author,
                               DictGetOr(books_by_author, author, <<>>) \o <<title>>)
                       IN \E text \in Texts :
                           /\ authors' = authors \o <<author>>
                           /\ books_by_author' =
                                  DictSet(byAuthor, CommonAll,
                                      DictGet(byAuthor, CommonAll) \o <<title>>)
                           /\ tokenized_texts' = DictSet(tokenized_texts, title, text)
                           /\ pos' = pos + 1
                           /\ UNCHANGED <<status, call>>
    /\ UNCHANGED <<listing, wld_lists>>

\* __init__ returns once the listing is exhausted.
LoadDone ==
    /\ status = "loading"
    /\ pos > Len(listing)
    /\ status' = "ready"
    /\ UNCHANGED <<listing, pos, tokenized_texts, books_by_author, authors,
                   wld_lists, call>>

NameArgs ==
    {NoneArg} \cup {ListArg(l) : l \in SeqsOf(Titles \cup AuthorNames, 0, MaxNames)}

\* A call of compare_distribution on the loaded corpus (lines 44-58).  The
\* call leaves the corpus as it found it, so a later call starts from the same
\* corpus as the first; one call per behaviour reaches every outcome.
Compare ==
    /\ status = "ready"
    /\ call = NoCall
    /\ \E names \in NameArgs, kind \in Kinds, tie \in TieModes :
           call' = [fn |-> "compare_distribution",
                    exc |-> compare_distribution(names, kind, tie).exc,
                    out |-> [names |-> names, kind |-> kind,
                             res |-> compare_distribution(names, kind, tie)]]
    /\ UNCHANGED <<corpus, wld_lists>>

Next == LoadFile \/ LoadDone \/ Compare

Spec == Init /\ [][Next]_vars

\* ------------------------------------------------ the distribution builder alone
BookX == <<"x">>
AuthorA == <<"a">>

Words == {Word(n) : n \in 1..MaxWordLen}

\* The analyzer built from a directory holding x-a.txt alone, whatever
\* non-empty token sequence the tokenizer made of the file.
InitWld ==
    /\ listing = << <<"x", Hyphen, "a", DotTxt>> >>
    /\ pos = 2
    /\ tokenized_texts \in {<< <<BookX, text>> >> : text \in SeqsOf(Words, 1, MaxTokens)}
    /\ books_by_author = << <<CommonAll, <<BookX>> >>, <<AuthorA, <<BookX>> >> >>
    /\ authors = <<AuthorA>>
    /\ status = "ready"
    /\ wld_lists = <<>>
    /\ call = NoCall

\* A call of _wld_list (lines 95-104).
CallWldList ==
    /\ status = "ready"
    /\ call = NoCall
    /\ \E name \in {BookX, AuthorA}, kind \in KnownKinds :
           call' = [fn |-> "_wld_list",
                    exc |-> _wld_list(name, kind).exc,
                    out |-> [name |-> name, kind |-> kind,
                             tokens |-> _tokens_from_name(name, kind).val,
                             val |-> _wld_list(name, kind).val]]
    /\ UNCHANGED <<corpus, wld_lists>>

NextWld == CallWldList

SpecWld == InitWld /\ [][NextWld]_vars

\* ------------------------------------------------ the statistical core alone
\* The i-th key of a dictionary of wld lists.
Name(i) == [j \in 1..i |-> "n"]

\* Counts below, at and above the smallest acceptable count, and one far above.
CountValues == {5, DefaultSmallestAcceptableCount, 20, 800}

WldLists == SeqsOf(CountValues, 0, MaxLen)

\* The dictionary holding the given lists under the keys Name(1), Name(2), ...
DictOf(lists) == [i \in 1..Len(lists) |-> <<Name(i), lists[i]>>]

Thresholds == {0, DefaultSmallestAcceptableCount, 11, 801}

\* The analyzer of an empty directory.
EmptyCorpus ==
    /\ listing = <<>>
    /\ pos = 1
    /\ tokenized_texts = <<>>
    /\ books_by_author = << <<CommonAll, <<>> >> >>
    /\ authors = <<>>
    /\ status = "ready"

\* A dictionary of at most two wld lists, of any lengths.
InitChi ==
    /\ EmptyCorpus
    /\ wld_lists \in {DictOf(lists) : lists \in SeqsOf(WldLists, 0, 2)}
    /\ call = NoCall

\* A call of ensure_no_zeros (lines 112-129); it rebinds the dictionary's keys.
CallEnsureNoZeros ==
    /\ call = NoCall
    /\ \E smallest_acceptable_count \in Thresholds :
          LET r == ensure_no_zeros(wld_lists, smallest_acceptable_count)
          IN /\ call' = [fn |-> "ensure_no_zeros", exc |-> r.exc,
                         out |-> [arg |-> wld_lists,
                                  smallest_acceptable_count |->
                                      smallest_acceptable_count,
                                  cutoff_idx |-> r.cutoff_idx]]
             /\ wld_lists' = r.val
    /\ UNCHANGED corpus

\* A call of _common_wld_list on the dictionary's values (lines 131-145).
CallCommonWldList ==
    /\ call = NoCall
    /\ LET r == _common_wld_list(DictValues(wld_lists))
       IN call' = [fn |-> "_common_wld_list", exc |-> r.exc,
                   out |-> [arg |-> DictValues(wld_lists), val |-> r.val]]
    /\ UNCHANGED <<corpus, wld_lists>>

\* A call of chi_square (lines 70-83); ensure_no_zeros truncates the
\* caller's dictionary.
CallChiSquare ==
    /\ call = NoCall
    /\ \E tie \in TieModes :
          LET r == chi_square(wld_lists, tie)
          IN /\ call' = [fn |-> "chi_square", exc |-> r.exc,
                         out |-> [arg |-> wld_lists, tie |-> tie, res |-> r]]
             /\ wld_lists' = r.wld_lists
    /\ UNCHANGED corpus

NextChi == CallEnsureNoZeros \/ CallCommonWldList \/ CallChiSquare

SpecChi == InitChi /\ [][NextChi]_vars

\* ------------------------------------------------ identical samples
\* A dictionary holding the same wld list under two or more names.
InitIdentical ==
    /\ EmptyCorpus
    /\ wld_lists \in {DictOf([i \in 1..k |-> l]) : k \in 2..MaxCopies, l \in WldLists}
    /\ call = NoCall

NextIdentical == CallChiSquare

SpecIdentical == InitIdentical /\ [][NextIdentical]_vars

\* ====================================================================== claims
ChiSquareReturned == call.fn = "chi_square"

\* The dictionary chi_square worked on once ensure_no_zeros had truncated it.
Truncated == call.out.res.wld_lists

\* ensure_no_zeros left a common length that is not zero.
NonZeroCutoff == Truncated # <<>> /\ Truncated[1][2] # <<>>

IsSum(total, lists, i) ==
    total = SumSeq([k \in 1..Len(lists) |->
                       IF i <= Len(lists[k]) THEN lists[k][i] ELSE 0])

\* C1: after a truncation to a non-zero common length chi_square computes, for
\* every sample, an expected list as long as the sample and with the sample's
\* total, whatever the rounding drift was.
C1_ExpectedSumEqualsSampleSum ==
    (ChiSquareReturned /\ NonZeroCutoff) =>
        /\ call.exc = NoExc
        /\ Len(call.out.res.expected) = Len(Truncated)
        /\ \A k \in 1..Len(Truncated) :
              /\ call.out.res.expected[k][1] = Truncated[k][1]
              /\ Len(call.out.res.expected[k][2]) = Len(Truncated[k][2])
              /\ SumSeq(call.out.res.expected[k][2]) = SumSeq(Truncated[k][2])

\* The total of a sample's expected list before the drift correction.
RoundedTotal(k) ==
    SumSeq(RoundedList(Truncated[k][2], call.out.res.common, call.out.tie))

\* C1 witness: chi_square returned after the rounding had undershot one
\* sample's total and overshot another's.
C1_DriftCorrected ==
    /\ ChiSquareReturned
    /\ NonZeroCutoff
    /\ call.exc = NoExc
    /\ \E k \in 1..Len(Truncated) : RoundedTotal(k) < SumSeq(Truncated[k][2])
    /\ \E k \in 1..Len(Truncated) : RoundedTotal(k) > SumSeq(Truncated[k][2])

\* C2: after ensure_no_zeros all lists have one length c, c is at most the
\* shortest original length, every retained count is at least the threshold,
\* and when c is below the shortest original length some original list has a
\* count below the threshold at index c.
C2_TruncationBound ==
    (call.fn = "ensure_no_zeros" /\ call.exc = NoExc) =>
        LET orig == DictValues(call.out.arg)
            c == call.out.cutoff_idx
            t == call.out.smallest_acceptable_count
            shortest == MinOf({Len(orig[k]) : k \in 1..Len(orig)})
        IN /\ DictKeys(wld_lists) = DictKeys(call.out.arg)
           /\ \A k \in 1..Len(wld_lists) :
                 /\ Len(wld_lists[k][2]) = c
                 /\ \A i \in 1..c : /\ wld_lists[k][2][i] = orig[k][i]
                                    /\ wld_lists[k][2][i] >= t
           /\ c <= shortest
           /\ (c < shortest => \E k \in 1..Len(orig) : orig[k][c + 1] < t)

\* C2 witness: lists of different lengths were cut below the shortest one, at
\* a position that is not the first.
C2_CutInsideShortest ==
    /\ call.fn = "ensure_no_zeros"
    /\ call.exc = NoExc
    /\ Len(call.out.arg) = 2
    /\ Len(call.out.arg[1][2]) # Len(call.out.arg[2][2])
    /\ call.out.cutoff_idx > 0
    /\ call.out.cutoff_idx < Len(call.out.arg[1][2])
    /\ call.out.cutoff_idx < Len(call.out.arg[2][2])

\* C3: the list _wld_list returns is as long as the longest token, and its
\* entry i counts the tokens of length i.
C3_WldListDense ==
    (call.fn = "_wld_list" /\ call.exc = NoExc) =>
        LET tokens == call.out.tokens
        IN /\ Len(call.out.val) = MaxOf({Len(tokens[j]) : j \in 1..Len(tokens)})
           /\ \A i \in 1..Len(call.out.val) :
                 call.out.val[i] =
                     Cardinality({j \in 1..Len(tokens) : Len(tokens[j]) = i})

\* What Python raises in this program when nothing handles a failure.
Crashes ==
    {UnknownKindError, EmptyMinError, EmptyMaxError, EmptyArgmaxError,
     UnpackError, NoneIterError, KeyErr, IndexErr, ZeroDivErr}

\* C4: when the truncation leaves nothing, chi_square does not crash, computes
\* no expected list and runs no test.
C4_EmptyCutoffHandled ==
    (ChiSquareReturned /\ call.out.arg # <<>> /\ ~NonZeroCutoff) =>
        /\ call.exc \notin Crashes
        /\ call.out.res.expected = <<>>
        /\ call.out.res.printed = <<>>

\* A list with data enough: not empty, every count at least the threshold.
Sufficient(wld_list) ==
    /\ wld_list # <<>>
    /\ \A i \in 1..Len(wld_list) : wld_list[i] >= DefaultSmallestAcceptableCount

\* C5: in a batch where one name lacks data and the other names have enough,
\* chi_square reports a result for each of the other names.
C5_OtherNamesStillReported ==
    (/\ ChiSquareReturned
     /\ \E k \in 1..Len(call.out.arg) : ~Sufficient(call.out.arg[k][2])) =>
        \A k \in 1..Len(call.out.arg) :
            Sufficient(call.out.arg[k][2]) =>
                \E n \in 1..Len(call.out.res.printed) :
                    call.out.res.printed[n][1] = call.out.arg[k][1]

\* C6: compare_distribution with a kind that is neither 'book' nor 'author'
\* raises the unknown-kind error, whatever names it is given, and neither
\* prints a result nor shows a graph.
C6_UnknownKindRejected ==
    (call.fn = "compare_distribution" /\ call.out.kind \notin KnownKinds) =>
        /\ call.exc = UnknownKindError
        /\ call.out.res.printed = <<>>
        /\ ~call.out.res.graphed

\* <title>-<author>.txt with exactly one hyphen.
WellFormed(f) ==
    /\ Cardinality({i \in 1..Len(f) : f[i] = Hyphen}) = 1
    /\ EndsWithTxt(f)
    /\ Cardinality({i \in 1..Len(f) : f[i] = DotTxt}) = 1

TitleOf(f) == SubSeq(f, 1, (CHOOSE i \in 1..Len(f) : f[i] = Hyphen) - 1)

ValidTitles == {TitleOf(f) : f \in {g \in Range(listing) : WellFormed(g)}}

\* C7: the load skips every file whose name is not well formed and goes on;
\* once it is over the corpus holds exactly the titles of the well-formed ones.
C7_MalformedSkipped ==
    /\ status # "crashed"
    /\ status = "ready" =>
          /\ Range(DictKeys(tokenized_texts)) = ValidTitles
          /\ Range(DictGet(books_by_author, CommonAll)) = ValidTitles

\* The test statistic is zero: every cell is defined and contributes nothing.
StatisticIsZero(cells) ==
    \A i \in 1..Len(cells) : cells[i][1] = 0 /\ cells[i][2] > 0

\* C8: for two or more identical lists with data enough the truncation keeps
\* the lists whole, each expected list equals its sample and each statistic
\* is zero.
C8_IdenticalListsFitExactly ==
    (/\ ChiSquareReturned
     /\ Len(call.out.arg) >= 2
     /\ \A k \in 1..Len(call.out.arg) :
           /\ call.out.arg[k][2] = call.out.arg[1][2]
           /\ Sufficient(call.out.arg[k][2])) =>
        /\ call.exc = NoExc
        /\ Truncated = call.out.arg
        /\ wld_lists = call.out.arg
        /\ call.out.res.expected = call.out.arg
        /\ Len(call.out.res.printed) = Len(call.out.arg)
        /\ \A k \in 1..Len(call.out.arg) :
              /\ call.out.res.printed[k][1] = call.out.arg[k][1]
              /\ Len(call.out.res.printed[k][2]) = Len(call.out.arg[k][2])
              /\ StatisticIsZero(call.out.res.printed[k][2])

\* C8 witness: three copies of a list of three counts were compared.
C8_ThreeCopiesCompared ==
    /\ ChiSquareReturned
    /\ call.exc = NoExc
    /\ Len(call.out.arg) >= 3
    /\ Len(call.out.arg[1][2]) >= 3
    /\ \A k \in 1..Len(call.out.arg) :
          call.out.arg[k][2] = call.out.arg[1][2] /\ Sufficient(call.out.arg[k][2])

C10_ExpectedPositive ==
    (ChiSquareReturned /\ NonZeroCutoff /\ call.exc = NoExc) =>
        \A k \in 1..Len(call.out.res.expected) :
            \A i \in 1..Len(call.out.res.expected[k][2]) :
                call.out.res.expected[k][2][i] > 0

====
